---- MODULE Spec2Model ----
(***************************************************************************)
(* The forward pass of TabNet (src/tabnet.py, TabNet.call) as a state      *)
(* machine.  Tensors are [batch] sequences of rows, a row is a sequence of *)
(* exact rationals <<numerator, denominator>>.  The learned operators      *)
(* (Dense + BatchNormalization of the TransformBlocks) are opaque: their   *)
(* outputs are drawn from small sets, their widths follow the code.        *)
(***************************************************************************)
EXTENDS Integers, Sequences, FiniteSets, TLC

VARIABLES cfg, dom, pc, ni, features, masked_features, mask_values, scaled_scores,
          complemantary_aggregated_mask_values, output_aggregated, decision_out,
          total_entropy, shape, built_f1, trace

vars == <<cfg, dom, pc, ni, features, masked_features, mask_values, scaled_scores,
          complemantary_aggregated_mask_values, output_aggregated, decision_out,
          total_entropy, shape, built_f1, trace>>

(* ------------------------------ bounds --------------------------------- *)
MaxSteps == 3
MaxFeatures == 3
MaxFeatureDim == 2
MaxOutputDim == 3

\* batch sizes; every operation of the pass but the entropy's reduce_mean is
\* row-wise
BatchSizes == {1}
\* relaxation_factor values: 1, the default 3/2, and 2
Gammas == {<<1, 1>>, <<3, 2>>, <<2, 1>>}
\* lambd_sparsity (epsilon) values
Epsilons == {<<1, 10>>}
\* values of the normalized encoded features
FeatVals == {<<-1, 1>>, <<2, 1>>}
\* values of an entry of the last transform block's output
OutVals == {<<-1, 1>>, <<1, 1>>}
\* values of an entry of transform_coef's output (the raw scores)
ScoreVals == {<<-1, 1>>, <<2, 1>>}

(* --------------------------- exact rationals --------------------------- *)
Abs(n) == IF n < 0 THEN -n ELSE n

RECURSIVE GCD(_, _)
GCD(a, b) == IF b = 0 THEN a ELSE GCD(b, a % b)

Norm(n, d) == LET g == GCD(Abs(n), d) IN <<n \div g, d \div g>>

Zero == <<0, 1>>
One == <<1, 1>>

Neg(p) == <<-p[1], p[2]>>

Add(p, q) ==
    LET g == GCD(p[2], q[2])
    IN  Norm(p[1] * (q[2] \div g) + q[1] * (p[2] \div g), (p[2] \div g) * q[2])

Sub(p, q) == Add(p, Neg(q))

Mul(p, q) ==
    LET g1 == GCD(Abs(p[1]), q[2])
        g2 == GCD(Abs(q[1]), p[2])
    IN  Norm((p[1] \div g1) * (q[1] \div g2), (p[2] \div g2) * (q[2] \div g1))

\* p / q for q > 0
Div(p, q) == Mul(p, <<q[2], q[1]>>)

Less(p, q) == p[1] * q[2] < q[1] * p[2]
Leq(p, q) == p[1] * q[2] <= q[1] * p[2]

Min(a, b) == IF a < b THEN a ELSE b
Max(a, b) == IF a < b THEN b ELSE a

(* ------------------------------ tensors -------------------------------- *)
\* Rows and tensors are built as explicit tuples.
RECURSIVE Rep(_, _)
Rep(v, w) == IF w <= 0 THEN <<>> ELSE <<v>> \o Rep(v, w - 1)

RECURSIVE Map1(_, _)
Map1(Op(_), r) == IF r = <<>> THEN <<>> ELSE <<Op(Head(r))>> \o Map1(Op, Tail(r))

RECURSIVE Map2(_, _, _)
Map2(Op(_, _), x, y) ==
    IF x = <<>> THEN <<>> ELSE <<Op(Head(x), Head(y))>> \o Map2(Op, Tail(x), Tail(y))

\* tf.zeros / tf.ones of shape [b, w]
Fill(b, w, v) == Rep(Rep(v, w), b)

Width(t) == Len(t[1])

RECURSIVE SumRow(_)
SumRow(r) == IF r = <<>> THEN Zero ELSE Add(Head(r), SumRow(Tail(r)))

\* Shape of a binary elementwise op on widths a and b (numpy broadcasting of
\* the last axis); 0 when the shapes are incompatible.
Broadcast(a, b) ==
    IF a = b THEN a ELSE IF a = 1 THEN b ELSE IF b = 1 THEN a ELSE 0

\* a row broadcast to width w
Expand(r, w) == IF Len(r) = w THEN r ELSE Rep(r[1], w)

MulRows(x, y) ==
    LET w == Broadcast(Len(x), Len(y)) IN Map2(Mul, Expand(x, w), Expand(y, w))

AddRows(x, y) ==
    LET w == Broadcast(Len(x), Len(y)) IN Map2(Add, Expand(x, w), Expand(y, w))

\* elementwise x * y and x + y of two tensors with broadcastable widths
TMul(x, y) == Map2(MulRows, x, y)

TAdd(x, y) == Map2(AddRows, x, y)

\* t[:, lo:hi] with Python's clamping of the bounds
Slice(t, lo, hi) == Map1(LAMBDA r : SubSeq(r, lo + 1, Min(hi, Len(r))), t)

ReluEntry(v) == IF Less(v, Zero) THEN Zero ELSE v

\* tf.nn.relu
Relu(t) == Map1(LAMBDA r : Map1(ReluEntry, r), t)

(* ------------------------ custom_objects (glu, sparsemax) -------------- *)
\* Width of glu(x, n_units) = x[:, :n_units] * sigmoid(x[:, n_units:]) for x
\* of width w.
GluWidth(w, n_units) == Broadcast(Min(n_units, w), w - Min(n_units, w))

\* index of a largest entry of a non-empty row (the first one on ties)
ArgMax(r) ==
    CHOOSE i \in 1..Len(r) :
        /\ \A j \in 1..Len(r) : Leq(r[j], r[i])
        /\ \A j \in 1..(i - 1) : Less(r[j], r[i])

Remove(r, i) == SubSeq(r, 1, i - 1) \o SubSeq(r, i + 1, Len(r))

RECURSIVE SortDesc(_)
SortDesc(r) ==
    IF r = <<>> THEN <<>>
    ELSE LET i == ArgMax(r) IN <<r[i]>> \o SortDesc(Remove(r, i))

\* (cumsum_k - 1) / k of the sorted row
Threshold(sorted, k) == Div(Sub(SumRow(SubSeq(sorted, 1, k)), One), <<k, 1>>)

\* largest k whose k-th sorted value exceeds (cumsum_k - 1) / k
SupportSize(sorted) ==
    CHOOSE k \in 1..Len(sorted) :
        /\ Less(Threshold(sorted, k), sorted[k])
        /\ \A j \in (k + 1)..Len(sorted) : ~Less(Threshold(sorted, j), sorted[j])

\* max(score - tau, 0)
Shift(v, tau) == IF Less(tau, v) THEN Sub(v, tau) ELSE Zero

ShiftRow(z, tau) == Map1(LAMBDA v : Shift(v, tau), z)

Tau(sorted) == Threshold(sorted, SupportSize(sorted))

SparsemaxRow(z) == ShiftRow(z, Tau(SortDesc(z)))

\* sparsemax(t, axis=-1)
sparsemax(t) == Map1(SparsemaxRow, t)

(* ------------------------------ TabNet.call ---------------------------- *)
\* mutation: the last block's output is not halved by glu
ChainWidthUnhalved(feature_dim) == 2 * feature_dim

\* Width of transform_f4: every block is Dense(2 * feature_dim) + BN, then
\* glu(., feature_dim), then the residual add with the previous block.
ChainWidth(feature_dim) ==
    LET f1 == GluWidth(2 * feature_dim, feature_dim)
        f2 == Broadcast(GluWidth(2 * feature_dim, feature_dim), f1)
        f3 == Broadcast(GluWidth(2 * feature_dim, feature_dim), f2)
    IN  Broadcast(GluWidth(2 * feature_dim, feature_dim), f3)

\* mutation: the guard also admits step 0
AggGuardAlways(n) == n >= 0

\* if ni > 0:
AggGuard(n) == n > 0

\* mutation: the guard stops one step early
MaskGuardEarly(n, steps) == n < steps - 2

\* if (ni < self.num_decision_steps - 1):
MaskGuard(n, steps) == n < steps - 1

\* mutation: the relu is dropped
DecisionOutNoRelu(f4, output_dim) == Slice(f4, 0, output_dim)

\* decision_out = tf.nn.relu(transform_f4[:, :self.output_dim])
DecisionOut(f4, output_dim) == Relu(Slice(f4, 0, output_dim))

\* features_for_coef = (transform_f4[:, self.output_dim:])
FeaturesForCoef(f4, output_dim) == Slice(f4, output_dim, Width(f4))

\* mutation: the scores are not scaled by the budget
ScaleScoresSkipped(raw, comp) == raw

\* mask_values *= complemantary_aggregated_mask_values
ScaleScores(raw, comp) == TMul(raw, comp)

\* mutation: the mask is the positive part of the scaled scores, not their
\* projection
MaskOfUnprojected(raw, comp) == Relu(TMul(raw, comp))

\* mask_values = sparsemax(mask_values, axis=-1), of the scaled scores
MaskOf(raw, comp) == sparsemax(ScaleScores(raw, comp))

\* mutation: the mask is added to the relaxation factor
BudgetUpdateAdding(comp, mask, gamma) ==
    TMul(comp, Map1(LAMBDA r : Map1(LAMBDA m : Add(gamma, m), r), mask))

\* complemantary_aggregated_mask_values *= (self.relaxation_factor - mask_values)
BudgetUpdate(comp, mask, gamma) ==
    TMul(comp, Map1(LAMBDA r : Map1(LAMBDA m : Sub(gamma, m), r), mask))

\* tf.math.log(x) for x > 0 as a rational enclosure: 1 - 1/x <= log x <= x - 1;
\* the lower end is rounded down to hundredths, which keeps it a lower end
LogLo(x) == Norm((100 * (x[1] - x[2])) \div x[1], 100)
LogHi(x) == Sub(x, One)

\* -m * log(m + epsilon) for m >= 0: the two ends of its enclosure
EntropyLo(m, eps) == Mul(Neg(m), LogHi(Add(m, eps)))
EntropyHi(m, eps) == Mul(Neg(m), LogLo(Add(m, eps)))

\* tf.reduce_sum(..., axis=1) of the two ends of the enclosure
RowSumLo(t, eps) == Map1(LAMBDA r : SumRow(Map1(LAMBDA m : EntropyLo(m, eps), r)), t)
RowSumHi(t, eps) == Map1(LAMBDA r : SumRow(Map1(LAMBDA m : EntropyHi(m, eps), r)), t)

\* tf.reduce_mean of a vector
ReduceMean(v) == Div(SumRow(v), <<Len(v), 1>>)

\* mutation: the minus sign is dropped
EntropyTermUnnegated(mask, eps, steps) ==
    [lo |-> Div(ReduceMean(Map1(Neg, RowSumHi(mask, eps))), <<steps - 1, 1>>),
     hi |-> Div(ReduceMean(Map1(Neg, RowSumLo(mask, eps))), <<steps - 1, 1>>)]

\* tf.reduce_mean(tf.reduce_sum(-mask * log(mask + epsilon), axis=1))
\*     / tf.cast(num_decision_steps - 1, tf.float32)
EntropyTerm(mask, eps, steps) ==
    [lo |-> Div(ReduceMean(RowSumLo(mask, eps)), <<steps - 1, 1>>),
     hi |-> Div(ReduceMean(RowSumHi(mask, eps)), <<steps - 1, 1>>)]

\* total_entropy += term
AddEntropy(total, term) == [lo |-> Add(total.lo, term.lo), hi |-> Add(total.hi, term.hi)]

\* mutation: the mask is applied to the previous masked features
SelectFeaturesCascaded(mask, feats, prev) == TMul(mask, prev)

\* masked_features = tf.multiply(mask_values, features)
SelectFeatures(mask, feats, prev) == TMul(mask, feats)

\* for ni in tf.range(self.num_decision_steps):
LoopPc(n, steps) == IF n < steps THEN "loop" ELSE "done"

\* The values the opaque operators are taken to produce: the normalized
\* encoded features, the entries of transform_f4, the entries of
\* transform_coef's output.
\* ShapeDomain varies the features and transform_f4 and ties all the scores;
\* MaskDomain varies the scores.
ShapeDomain == [features |-> FeatVals, transform_f4 |-> OutVals, scores |-> {<<2, 1>>}]
MaskDomain == [features |-> {<<2, 1>>}, transform_f4 |-> {<<1, 1>>}, scores |-> ScoreVals]

Configs ==
    [batch : BatchSizes, num_decision_steps : 1..MaxSteps,
     num_features : 1..MaxFeatures, encoded : 1..MaxFeatures,
     feature_dim : 1..MaxFeatureDim, output_dim : 1..MaxOutputDim,
     relaxation_factor : Gammas, epsilon : Epsilons]

\* The state on entering the loop of TabNet.call.
\*   built_f1       input width transform_f1's Dense layer was built with (0: not yet)
\*   shape          widths of transform_f4 and features_for_coef of the last step
\*   decision_out   the last decision_out (empty before the first one)
\*   scaled_scores  mask_values between the scaling by the budget and sparsemax
\*   trace          the operations run so far, each with its step index
Start(configs, domains) ==
    /\ cfg \in configs
    /\ dom = domains
    /\ features \in [1..cfg.batch -> [1..cfg.encoded -> dom.features]]
    /\ output_aggregated = Fill(cfg.batch, cfg.output_dim, Zero)
    /\ masked_features = features
    /\ mask_values = Fill(cfg.batch, cfg.num_features, Zero)
    /\ scaled_scores = Fill(cfg.batch, cfg.num_features, Zero)
    /\ complemantary_aggregated_mask_values = Fill(cfg.batch, cfg.num_features, One)
    /\ total_entropy = [lo |-> Zero, hi |-> Zero]
    /\ decision_out = Fill(cfg.batch, 0, Zero)
    /\ shape = [transform_f4 |-> 0, features_for_coef |-> 0]
    /\ built_f1 = 0
    /\ ni = 0
    /\ pc = LoopPc(0, cfg.num_decision_steps)
    /\ trace = <<>>

\* every width configuration, with ShapeDomain
Init == Start(Configs, ShapeDomain)

\* the configurations whose widths agree, with MaskDomain
MaskConfigs ==
    {c \in Configs : /\ c.encoded = c.num_features
                     /\ c.feature_dim = MaxFeatureDim
                     /\ c.output_dim = 1}

InitMask == Start(MaskConfigs, MaskDomain)

\* the values transform_f4 can take
F4Values == [1..cfg.batch -> [1..ChainWidth(cfg.feature_dim) -> dom.transform_f4]]

ShapeF4 == Fill(cfg.batch, ChainWidth(cfg.feature_dim), Zero)

\* the values transform_coef can produce
RawScores == [1..cfg.batch -> [1..cfg.num_features -> dom.scores]]

\* transform_f1's Dense layer rejects an input whose width is not the one it
\* was built with
ChainFails ==
    \/ built_f1 \notin {0, Width(masked_features)}
    \/ ChainWidth(cfg.feature_dim) = 0

\* output_aggregated += decision_out needs broadcastable widths
AggFails ==
    /\ AggGuard(ni)
    /\ Broadcast(Width(output_aggregated), Width(DecisionOut(ShapeF4, cfg.output_dim))) = 0

\* masked_features = tf.multiply(mask_values, features) needs broadcastable widths
SelectFails == Broadcast(cfg.num_features, Width(features)) = 0

HeadTrace ==
    Append(trace, <<"chain", ni>>) \o (IF AggGuard(ni) THEN <<<<"agg", ni>>>> ELSE <<>>)

\* lines 119-147: the four blocks give transform_f4 = f4, then the decision
\* aggregation and the slice for transform_coef
DecisionHead(f4) ==
    /\ built_f1' = Width(masked_features)
    /\ shape' = [transform_f4 |-> Width(f4),
                 features_for_coef |-> Width(FeaturesForCoef(f4, cfg.output_dim))]
    /\ IF AggGuard(ni)
       THEN /\ decision_out' = DecisionOut(f4, cfg.output_dim)
            /\ output_aggregated' = TAdd(output_aggregated, decision_out')
       ELSE UNCHANGED <<decision_out, output_aggregated>>

\* a step that fails in lines 119-147
HeadError ==
    /\ pc' = "error"
    /\ IF ChainFails
       THEN trace' = Append(trace, <<"chain", ni>>) /\ UNCHANGED <<built_f1, shape>>
       ELSE /\ trace' = HeadTrace
            /\ built_f1' = Width(masked_features)
            /\ shape' = [transform_f4 |-> Width(ShapeF4),
                         features_for_coef |-> Width(FeaturesForCoef(ShapeF4, cfg.output_dim))]
    /\ UNCHANGED <<ni, masked_features, mask_values, scaled_scores,
                   complemantary_aggregated_mask_values, output_aggregated,
                   decision_out, total_entropy>>

\* lines 152-170: raw is the output of transform_coef on features_for_coef
GenerateMask(raw) ==
    /\ scaled_scores' = ScaleScores(raw, complemantary_aggregated_mask_values)
    /\ mask_values' = MaskOf(raw, complemantary_aggregated_mask_values)
    /\ complemantary_aggregated_mask_values' =
           BudgetUpdate(complemantary_aggregated_mask_values, mask_values',
                        cfg.relaxation_factor)
    /\ total_entropy' =
           AddEntropy(total_entropy,
                      EntropyTerm(mask_values', cfg.epsilon, cfg.num_decision_steps))
    /\ trace' = Append(HeadTrace, <<"mask", ni>>)
    /\ IF SelectFails
       THEN pc' = "error" /\ UNCHANGED <<masked_features, ni>>
       ELSE /\ masked_features' = SelectFeatures(mask_values', features, masked_features)
            /\ ni' = ni + 1
            /\ pc' = LoopPc(ni + 1, cfg.num_decision_steps)

\* a decision step that generates the mask of the next step
MaskedStep ==
    /\ pc = "loop"
    /\ MaskGuard(ni, cfg.num_decision_steps)
    /\ UNCHANGED <<cfg, dom, features>>
    /\ IF ChainFails \/ AggFails
       THEN HeadError
       ELSE /\ \E raw \in RawScores : GenerateMask(raw)
            /\ \E f4 \in F4Values : DecisionHead(f4)

\* a decision step that generates no mask
FinalStep ==
    /\ pc = "loop"
    /\ ~MaskGuard(ni, cfg.num_decision_steps)
    /\ UNCHANGED <<cfg, dom, features>>
    /\ IF ChainFails \/ AggFails
       THEN HeadError
       ELSE /\ \E f4 \in F4Values : DecisionHead(f4)
            /\ ni' = ni + 1
            /\ pc' = LoopPc(ni + 1, cfg.num_decision_steps)
            /\ trace' = HeadTrace
            /\ UNCHANGED <<masked_features, mask_values, scaled_scores,
                           complemantary_aggregated_mask_values, total_entropy>>

Next == MaskedStep \/ FinalStep

Spec == Init /\ [][Next]_vars

SpecMask == InitMask /\ [][Next]_vars

(* ------------------------------ properties ----------------------------- *)
\* number of operations of a kind run so far
Count(op) == Cardinality({i \in 1..Len(trace) : trace[i][1] = op})

\* the step just taken generated a mask
MaskStep == Len(trace') > Len(trace) /\ trace'[Len(trace')][1] = "mask"

Samples == 1..cfg.batch
Feats == 1..cfg.num_features

NonNegative(t) == \A s \in 1..Len(t) : \A f \in 1..Len(t[s]) : Leq(Zero, t[s][f])

AllEqual(r) == \A f \in 1..Len(r) : r[f] = r[1]

RECURSIVE Pow(_, _)
Pow(p, k) == IF k = 0 THEN One ELSE Mul(p, Pow(p, k - 1))

\* sum of the positive entries of a row
PosSum(r) == SumRow(Map1(ReluEntry, r))

\* the operations of steps 0 .. n-1 of a pass of `steps` steps, in order
RECURSIVE StepsTrace(_, _)
StepsTrace(n, steps) ==
    IF n = 0 THEN <<>>
    ELSE StepsTrace(n - 1, steps)
         \o <<<<"chain", n - 1>>>>
         \o (IF n - 1 > 0 THEN <<<<"agg", n - 1>>>> ELSE <<>>)
         \o (IF n - 1 < steps - 1 THEN <<<<"mask", n - 1>>>> ELSE <<>>)

\* C1: with num_decision_steps = 1 the pass never fails, runs neither the
\* aggregation nor the mask generation (the two places that divide by
\* num_decision_steps - 1), and returns the all-zero [batch, output_dim]
\* output and entropy 0.
C1_SingleStepIsZero ==
    cfg.num_decision_steps = 1 =>
        /\ pc # "error"
        /\ Count("agg") = 0
        /\ Count("mask") = 0
        /\ pc = "done" =>
              /\ output_aggregated = Fill(cfg.batch, cfg.output_dim, Zero)
              /\ total_entropy = [lo |-> Zero, hi |-> Zero]

C1_Witness ==
    /\ cfg.num_decision_steps = 1
    /\ pc = "done"
    /\ cfg.encoded # cfg.num_features

\* C2: every generated mask row is a point of the probability simplex of
\* num_features entries (each entry >= 0, the row sums to 1), and a row whose
\* scaled scores are all equal gets the uniform mask 1 / num_features.
C2_MaskOnSimplex ==
    Count("mask") > 0 =>
        \A s \in Samples :
            /\ Len(mask_values[s]) = cfg.num_features
            /\ \A f \in Feats : Leq(Zero, mask_values[s][f])
            /\ SumRow(mask_values[s]) = One
            /\ AllEqual(scaled_scores[s]) =>
                   \A f \in Feats : mask_values[s][f] = <<1, cfg.num_features>>

C2_Witness ==
    /\ Count("mask") = 2
    /\ cfg.num_features = 3
    /\ AllEqual(scaled_scores[1])
    /\ mask_values[1][1] = <<1, 3>>

\* C3 as stated: TotalEntropy is never negative.  The true value lies in
\* [total_entropy.lo, total_entropy.hi], so the statement needs hi >= 0.
C3_EntropyNonNegative == Leq(Zero, total_entropy.hi)

\* C3 (amended): TotalEntropy is at least -epsilon; after k masks it is at
\* least -epsilon * k / (num_decision_steps - 1).
C3_EntropyAboveMinusEpsilon ==
    /\ Leq(Neg(cfg.epsilon), total_entropy.lo)
    /\ Count("mask") > 0 =>
           Leq(Mul(Neg(cfg.epsilon), Norm(Count("mask"), cfg.num_decision_steps - 1)),
               total_entropy.lo)

C3_Witness ==
    /\ pc = "done"
    /\ Count("mask") = 2
    /\ Less(total_entropy.hi, Zero)

\* C4 as stated: every entry of ComplementaryBudget lies in [0, relaxation_factor].
C4_BudgetWithinRelaxation ==
    \A s \in Samples : \A f \in Feats :
        /\ Leq(Zero, complemantary_aggregated_mask_values[s][f])
        /\ Leq(complemantary_aggregated_mask_values[s][f], cfg.relaxation_factor)

\* C4 (amended): every entry of ComplementaryBudget is never negative and,
\* after k updates, at most relaxation_factor^k.
C4_BudgetWithinPower ==
    \A s \in Samples : \A f \in Feats :
        /\ Leq(Zero, complemantary_aggregated_mask_values[s][f])
        /\ Leq(complemantary_aggregated_mask_values[s][f],
               Pow(cfg.relaxation_factor, Count("mask")))

C4_Witness ==
    /\ Count("mask") = 2
    /\ \E f \in Feats :
           complemantary_aggregated_mask_values[1][f] = Pow(cfg.relaxation_factor, 2)
    /\ Less(One, cfg.relaxation_factor)

\* C5: a pass whose encoded feature count differs from num_features, or whose
\* output_dim exceeds 2 * feature_dim, never returns a value.
C5_MisconfiguredNeverReturns ==
    (cfg.encoded # cfg.num_features \/ cfg.output_dim > 2 * cfg.feature_dim)
        => pc # "done"

\* C6: output_aggregated starts at zero, has output_dim columns and no
\* negative entry; step 0 leaves it unchanged and every later step adds its
\* decision_out, a relu output, to it exactly once (or fails and leaves it).
C6_OutputIsSumOfLaterSteps ==
    /\ output_aggregated = Fill(cfg.batch, cfg.output_dim, Zero)
    /\ [][/\ Width(output_aggregated') = cfg.output_dim
          /\ NonNegative(output_aggregated')
          /\ ni = 0 => output_aggregated' = output_aggregated
          /\ ni > 0 =>
                \/ /\ NonNegative(decision_out')
                   /\ output_aggregated' = TAdd(output_aggregated, decision_out')
                \/ pc' = "error" /\ output_aggregated' = output_aggregated]_vars

C6_Witness ==
    /\ pc = "done"
    /\ cfg.num_decision_steps = 3
    /\ output_aggregated[1][1] = <<2, 1>>

\* C7: while no step has failed, the operations run are exactly those of the
\* completed steps 0 .. ni-1 in order: the chain in every step, the mask
\* generation (with its budget and entropy update) in every step but the
\* last; the pass ends after step num_decision_steps - 1 and runs nothing more.
C7_StepsInOrder ==
    /\ pc # "error" => trace = StepsTrace(ni, cfg.num_decision_steps)
    /\ pc = "done" =>
          /\ ni = cfg.num_decision_steps
          /\ Count("chain") = cfg.num_decision_steps
          /\ Count("mask") = cfg.num_decision_steps - 1
          /\ ~ENABLED Next

C7_Witness ==
    /\ pc = "done"
    /\ cfg.num_decision_steps = 3
    /\ Count("mask") = 2

\* C8: features never changes; the chain's input masked_features is features
\* itself until a mask exists and mask_values * features afterwards.
C8_MaskingNotCascaded ==
    /\ masked_features = features
    /\ [][/\ features' = features
          /\ Count("mask")' = 0 => masked_features' = features'
          /\ (Count("mask")' > 0 /\ pc' # "error") =>
                 masked_features' = TMul(mask_values', features')]_vars

C8_Witness ==
    /\ Count("mask") = 2
    /\ pc # "error"
    /\ masked_features # features
    /\ \E f \in Feats : mask_values[1][f] \notin {Zero, One}

\* C9 as stated: transform_f4 has width 2 * feature_dim and the mask-driver
\* slice has width 2 * feature_dim - output_dim.
C9_ChainWidthIsDouble ==
    Count("chain") > 0 /\ shape.transform_f4 # 0 =>
        /\ shape.transform_f4 = 2 * cfg.feature_dim
        /\ shape.features_for_coef = 2 * cfg.feature_dim - cfg.output_dim

\* C9 (amended): transform_f4 has width feature_dim, decision_out its first
\* min(output_dim, feature_dim) columns, and the mask-driver slice has width
\* max(feature_dim - output_dim, 0).
C9_ChainWidthIsFeatureDim ==
    shape.transform_f4 # 0 =>
        /\ shape.transform_f4 = cfg.feature_dim
        /\ shape.features_for_coef = Max(cfg.feature_dim - cfg.output_dim, 0)
        /\ Count("agg") > 0 /\ pc # "error" =>
               Width(decision_out) = Min(cfg.output_dim, cfg.feature_dim)

C9_Witness ==
    /\ shape.transform_f4 = cfg.feature_dim
    /\ cfg.feature_dim = cfg.output_dim
    /\ shape.features_for_coef = 0
    /\ Count("mask") > 0

\* C10 as stated: with relaxation_factor = 1, a feature whose budget entry is
\* 0 (it received mask value 1 at an earlier step) receives mask value 0 in
\* every later mask.
C10_UsedFeatureNeverReselected ==
    [][(cfg.relaxation_factor = One /\ MaskStep) =>
          \A s \in Samples : \A f \in Feats :
              complemantary_aggregated_mask_values[s][f] = Zero =>
                  mask_values'[s][f] = Zero]_vars

\* C10 (amended): with relaxation_factor = 1, a feature whose budget entry is
\* 0 keeps budget 0 and gets scaled score 0 in every later mask step, and its
\* mask value is 0 exactly when the positive scaled scores of the sample sum
\* to at least 1.
C10_UsedFeatureScoreIsZero ==
    [][(cfg.relaxation_factor = One /\ MaskStep) =>
          \A s \in Samples : \A f \in Feats :
              complemantary_aggregated_mask_values[s][f] = Zero =>
                  /\ scaled_scores'[s][f] = Zero
                  /\ complemantary_aggregated_mask_values'[s][f] = Zero
                  /\ mask_values'[s][f] = Zero <=> Leq(One, PosSum(scaled_scores'[s]))]_vars

C10_Witness ==
    /\ cfg.relaxation_factor = One
    /\ Count("mask") = 2
    /\ \E f \in Feats :
           /\ complemantary_aggregated_mask_values[1][f] = Zero
           /\ mask_values[1][f] = Zero
           /\ scaled_scores[1][f] = Zero

====
